---- MODULE Spec2Model ----
(***************************************************************************)
(* Phosphorus plagiarism plugin for Hydro OJ.                              *)
(*                                                                         *)
(* Part 1: the Backend Client (makeApiRequest, with and without retry) and *)
(* the Task Orchestrator (NewPlagiarismTaskHandler.post and                *)
(* TaskStatusHandler.get) talking to the analysis engine over HTTP.        *)
(*                                                                         *)
(* Numbers that arrive from the form are fixed-point with two decimals     *)
(* (900 is 9, 70 is 0.7, -150 is -1.5).                          *)
(***************************************************************************)
EXTENDS Integers, Sequences, FiniteSets, TLC

\* ------------------------------------------------------------------ bounds
MaxCalls == 3      \* handler invocations in one behaviour
MaxTasks == 1      \* tasks the engine is willing to create
MaxResults == 2    \* results in check_plagiarism_results
MaxTimers == 2     \* setInterval calls on one page
MaxInFlight == 2   \* status requests of the updater in flight at one time

\* ------------------------------------------------------- program constants
maxRetries == 3
BaseDelay == 1000
DefaultMinTokens == 900
DefaultSimilarityThreshold == 70

Scale == 100

\* ------------------------------------------------------------ environment
Contests == {"c1", "c2"}

\* What one fetch() can end in: 0 is a rejected fetch (no response), the
\* others are HTTP statuses; 204 is a 2xx answer whose body is not JSON.
NetFail == 0
Replies == {NetFail, 200, 204, 404, 500}

\* response.ok
Ok(status) == status >= 200 /\ status <= 299

\* Behaviour of a mock server: the replies it gives to the next requests,
\* in order.  <<>> is an unscripted server.
Scripts == {<<>>, <<500, 500, 200>>, <<500, 500, 500, 200>>}

\* problem_ids as it arrives in the form: an array or some other value
ProblemIdInputs ==
    { [array |-> TRUE, items |-> <<>>],
      [array |-> TRUE, items |-> <<1, 2>>],
      [array |-> FALSE, items |-> <<>>] }

MinTokenInputs == {-150}
ThresholdInputs == {150}

\* this.request.body of a submission: every field may be missing
PostBodies ==
    { c @@ p @@ m @@ s :
        c \in {<<>>} \cup { ("contest_id" :> x) : x \in Contests },
        p \in {<<>>} \cup { ("problem_ids" :> x) : x \in ProblemIdInputs },
        m \in {<<>>} \cup { ("min_tokens" :> x) : x \in MinTokenInputs },
        s \in {<<>>} \cup { ("similarity_threshold" :> x) : x \in ThresholdInputs } }

\* property access on a JavaScript object: undefined when the key is missing
Has(obj, key) == key \in DOMAIN obj

\* destructuring with a default value
Default(obj, key, dflt) == IF Has(obj, key) THEN obj[key] ELSE dflt

\* parseInt of a number: truncation towards zero
ParseInt(x) == IF x >= 0 THEN (x \div Scale) * Scale ELSE -(((-x) \div Scale) * Scale)

\* Math.round(parseFloat(x) * 100)
RoundPercent(x) == x

NoTask == 0
NoUrl == <<>>

\* no result page has been rendered
NoPage == [handler |-> "none"]

\* this.intervalId = null
NoInterval == 0

\* no method of the updater has run
NoCall == [method |-> "none", wasRunning |-> FALSE]

VARIABLES
    tasks,      \* the engine's tasks, task_id = position
    calls,      \* handler invocations so far
    handler,    \* the handler that is running, or "none"
    request,    \* request body / route parameters of the current or last handler
    apiPc,      \* makeApiRequest: "idle", "fetch", "sleep", "returned", "thrown"
    attempt,    \* makeApiRequest: loop variable
    sent,       \* HTTP requests issued by the current or last call
    delays,     \* setTimeout delays started by the running call
    replies,    \* what each fetch of the running call ended in
    script,     \* remaining scripted replies of the server
    apiResult,  \* value returned by makeApiRequest
    response,   \* this.response of the last finished handler
    terminalReported, \* history: tasks some poll has reported completed or failed
    store,      \* check_plagiarism_results, in the order find() returns it
    page,       \* handler, inputs and this.response.body of the last result page
    isRunning,  \* PlagiarismStatusUpdater: this.isRunning
    intervalId, \* PlagiarismStatusUpdater: this.intervalId, 0 is null
    timers,     \* the browser: ids of the intervals that are active
    handedOut,  \* the browser: interval ids handed out on this page
    inFlight,   \* the status requests in flight, counted by the interval that sent them
    reloads,    \* window.location.reload() calls on this page, by the interval of the request
    lastCall    \* the method of the updater that ran last, and isRunning when it began

\* state of the result pages (Part 2)
aggVars == <<store, page>>

\* state of the client and the orchestrator (Part 1)
taskVars == <<tasks, calls, handler, request, apiPc, attempt, sent, delays,
              replies, script, apiResult, response, terminalReported>>

\* state of the status updater of the browser script (Part 3)
updaterVars == <<isRunning, intervalId, timers, handedOut, inFlight, reloads, lastCall>>

vars == <<tasks, calls, handler, request, apiPc, attempt, sent, delays,
          replies, script, apiResult, response, terminalReported, store, page,
          isRunning, intervalId, timers, handedOut, inFlight, reloads, lastCall>>

\* ------------------------------------------------------------------ engine
\* progress the engine reports for a task state
Progress(state) ==
    CASE state = "submitted" -> 0
      [] state = "processing" -> 50
      [] OTHER -> 100

\* body of GET /api/v1/task/{task_id}/status
StatusJson(t) ==
    [ status |-> tasks[t].state,
      progress |-> Progress(tasks[t].state),
      completed |-> tasks[t].state = "completed",
      contest_id |-> tasks[t].contest ]

\* body of POST /api/v1/contest/plagiarism/problems/async when a task was created
CreatedJson(id, n) ==
    [ success |-> TRUE, data |-> [task_id |-> id, problem_count |-> n] ]

RefusedJson == [ success |-> FALSE, message |-> "engine refused" ]

NoJson == [ none |-> TRUE ]

\* the request body the submission handler builds (taskData)
TaskData(body) ==
    [ contest_id |-> body.contest_id,
      problem_ids |-> body.problem_ids.items,
      min_tokens |-> ParseInt(Default(body, "min_tokens", DefaultMinTokens)),
      similarity_threshold |-> Default(body, "similarity_threshold", DefaultSimilarityThreshold) ]

IsPost(h) == h \in {"post_v1", "post_v2", "post_v3"}
IsStatus(h) == h \in {"status_v2", "status_v3"}

\* handlers of the restructured plugin call the retrying makeApiRequest
Retrying(h) == h \in {"post_v3", "status_v3"}

WithTask(body) == Append(tasks, [contest |-> body.contest_id, state |-> "submitted"])

\* Everything one HTTP request of the running handler can end in:
\* the status the client sees, the engine's tasks afterwards, the JSON body.
EngineReplies ==
    IF IsPost(handler)
    THEN LET data == TaskData(request)
             room == Len(tasks) < MaxTasks
         IN  { [status |-> s, tasks |-> tasks, json |-> NoJson] : s \in {NetFail, 204, 404, 500} }
             \cup { [status |-> 200, tasks |-> tasks, json |-> RefusedJson] }
             \cup (IF room
                   THEN { [status |-> s, tasks |-> WithTask(data), json |-> NoJson] : s \in {NetFail, 204} }
                        \cup { [status |-> 200, tasks |-> WithTask(data),
                                json |-> CreatedJson(Len(tasks) + 1, Len(data.problem_ids))] }
                   ELSE {})
    ELSE { [status |-> s, tasks |-> tasks, json |-> NoJson] : s \in {NetFail, 204, 404, 500} }
         \cup (IF request.task_id \in DOMAIN tasks
               THEN { [status |-> 200, tasks |-> tasks, json |-> StatusJson(request.task_id)] }
               ELSE {})

\* a scripted server answers with the head of its script
Scripted(status) == IF script = <<>> THEN TRUE ELSE status = Head(script)

\* the engine works on a task
EngineStep ==
    /\ \E t \in DOMAIN tasks, next \in {"processing", "completed", "failed"} :
         /\ \/ tasks[t].state = "submitted" /\ next = "processing"
            \/ tasks[t].state = "processing" /\ next \in {"completed", "failed"}
         /\ tasks' = [tasks EXCEPT ![t].state = next]
    /\ UNCHANGED <<aggVars, updaterVars,calls, handler, request, apiPc, attempt, sent, delays,
                   replies, script, apiResult, response, terminalReported>>

\* ---------------------------------------------------------- Backend Client
\* response.json() succeeds
JsonBody(status) == status = 200

\* a 5xx is retried whatever the attempt
RetryOn5xxAlways(status, a) == status >= 500

\* line 279: a 5xx is retried while attempts remain
RetryOn5xx(status, a) == status >= 500 /\ a < maxRetries

\* a catch block that gives up one attempt early
GivesUpEarly(a) == a >= maxRetries - 1

\* a catch block that tests the attempt after the last one
GivesUpLate(a) == a > maxRetries

\* line 293: the catch block gives up on the last attempt
GivesUp(a) == a = maxRetries

\* a delay that does not grow with the attempt
RetryDelayConstant(a) == BaseDelay

\* lines 281 and 299: the delay before the next attempt
RetryDelay(a) == BaseDelay * a

\* Where one iteration of the retry loop goes after its fetch has ended in
\* `status`: "returned", "sleep" (a delay, then the next attempt) or "thrown".
\* A non-ok response that is not retried by line 279 throws inside the try
\* block, so it reaches the same catch block as a rejected fetch.
AfterFetch(status, a) ==
    IF status # NetFail /\ Ok(status) /\ JsonBody(status)
    THEN "returned"
    ELSE IF status # NetFail /\ ~Ok(status) /\ RetryOn5xx(status, a)
         THEN "sleep"
         ELSE IF GivesUp(a) THEN "thrown" ELSE "sleep"

\* message of the error makeApiRequest throws
ErrorMessage(status) ==
    CASE status = NetFail -> "API request failed: fetch failed"
      [] Ok(status) -> "API request failed: invalid JSON"
      [] status >= 500 -> "API request failed: HTTP 5xx"
      [] OTHER -> "API request failed: HTTP 4xx"

\* makeApiRequest with retry: one attempt, from fetch() to the next await
makeApiRequest ==
    /\ apiPc = "fetch"
    /\ Retrying(handler)
    /\ \E e \in EngineReplies :
         LET next == AfterFetch(e.status, attempt) IN
         /\ Scripted(e.status)
         /\ tasks' = e.tasks
         /\ sent' = sent + 1
         /\ replies' = Append(replies, e.status)
         /\ script' = IF script = <<>> THEN script ELSE Tail(script)
         /\ apiPc' = next
         /\ delays' = IF next = "sleep" THEN Append(delays, RetryDelay(attempt)) ELSE delays
         /\ apiResult' = IF next = "returned" THEN e.json ELSE apiResult
    /\ UNCHANGED <<aggVars, updaterVars,calls, handler, request, attempt, response, terminalReported>>

\* the delay is over: the for loop increments attempt and tests it
makeApiRequestWake ==
    /\ apiPc = "sleep"
    /\ attempt' = attempt + 1
    /\ apiPc' = IF attempt + 1 <= maxRetries THEN "fetch" ELSE "returned"
    /\ UNCHANGED <<aggVars, updaterVars,tasks, calls, handler, request, sent, delays, replies,
                   script, apiResult, response, terminalReported>>

\* makeApiRequest of index.ts: a single fetch, no retry
makeApiRequestOnce ==
    /\ apiPc = "fetch"
    /\ ~Retrying(handler)
    /\ \E e \in EngineReplies :
         /\ tasks' = e.tasks
         /\ sent' = sent + 1
         /\ replies' = Append(replies, e.status)
         /\ IF e.status # NetFail /\ Ok(e.status) /\ JsonBody(e.status)
            THEN apiPc' = "returned" /\ apiResult' = e.json
            ELSE apiPc' = "thrown" /\ apiResult' = apiResult
    /\ UNCHANGED <<aggVars, updaterVars,calls, handler, request, attempt, delays, script, response,
                   terminalReported>>

\* ------------------------------------------------------- Task Orchestrator
NoResponse == [ template |-> "none" ]

\* the catch block of the submission handler: the form again, with the error
FormError(message, body) ==
    [ template |-> "new_task.html", error |-> message, form_data |-> body ]

\* !contest_id
NoContest(body) == ~Has(body, "contest_id") \/ body.contest_id = ""

\* the check without its length test
NoProblemsUnlessArray(body) ==
    \/ ~Has(body, "problem_ids")
    \/ ~body.problem_ids.array

\* !problem_ids || !Array.isArray(problem_ids) || problem_ids.length === 0
NoProblems(body) ==
    \/ ~Has(body, "problem_ids")
    \/ ~body.problem_ids.array
    \/ Len(body.problem_ids.items) = 0

\* the throw statements before the request is built, "" when there is none
ValidationError(body) ==
    IF NoContest(body) THEN "select a contest"
    ELSE IF NoProblems(body) THEN "select at least one problem"
    ELSE ""

\* task_id of the page shown after a submission
\* index.ts:712 (first version): result.task_id || null
SubmittedTaskIdV1(result) == IF Has(result, "task_id") THEN result.task_id ELSE NoTask
\* index.ts:1956: taskInfo.task_id with taskInfo = result.data
SubmittedTaskId(result) == result.data.task_id

\* body of task_submitted.html
SubmittedPage(h, body, result) ==
    [ template |-> "task_submitted.html",
      contest_id |-> body.contest_id,
      problem_count |-> Len(body.problem_ids.items),
      min_tokens |-> ParseInt(Default(body, "min_tokens", DefaultMinTokens)),
      similarity_threshold |->
          RoundPercent(Default(body, "similarity_threshold", DefaultSimilarityThreshold)),
      task_id |-> IF h = "post_v1" THEN SubmittedTaskIdV1(result) ELSE SubmittedTaskId(result),
      success |-> TRUE ]

\* NewPlagiarismTaskHandler.post up to its call of makeApiRequest
NewPlagiarismTaskHandlerPost(h) ==
    /\ handler = "none"
    /\ calls < MaxCalls
    /\ \E body \in PostBodies :
         LET invalid == ValidationError(body) IN
         /\ request' = body
         /\ IF invalid # ""
            THEN /\ handler' = "none"
                 /\ apiPc' = "idle"
                 /\ response' = FormError(invalid, body)
            ELSE /\ handler' = h
                 /\ apiPc' = "fetch"
                 /\ response' = NoResponse
    /\ calls' = calls + 1
    /\ attempt' = 1
    /\ sent' = 0
    /\ delays' = <<>>
    /\ replies' = <<>>
    /\ script' = <<>>
    /\ apiResult' = NoJson
    /\ UNCHANGED <<aggVars, updaterVars,tasks, terminalReported>>

\* NewPlagiarismTaskHandler.post after makeApiRequest has returned or thrown
NewPlagiarismTaskHandlerPostDone ==
    /\ IsPost(handler)
    /\ apiPc \in {"returned", "thrown"}
    /\ response' =
         IF apiPc = "thrown"
         THEN FormError(ErrorMessage(replies[Len(replies)]), request)
         ELSE IF Has(apiResult, "success") /\ apiResult.success
              THEN IF handler # "post_v1" /\ ~Has(apiResult, "data")
                   THEN FormError("TypeError", request)
                   ELSE SubmittedPage(handler, request, apiResult)
              ELSE FormError(Default(apiResult, "message", "task creation failed"), request)
    /\ handler' = "none"
    /\ attempt' = 1
    /\ delays' = <<>>
    /\ replies' = <<>>
    /\ script' = <<>>
    /\ UNCHANGED <<aggVars, updaterVars,tasks, calls, request, apiPc, sent, apiResult, terminalReported>>

\* `/plagiarism/contest/${result.contest_id}`
ResultUrl(contest_id) == <<"plagiarism", "contest", contest_id>>

\* a status body that links to the results whatever `completed` says
StatusBodyAlwaysLinked(task_id, result) ==
    [ type |-> "application/json",
      success |-> TRUE,
      task_id |-> task_id,
      status |-> Default(result, "status", "unknown"),
      progress |-> Default(result, "progress", 0),
      completed |-> Default(result, "completed", FALSE),
      result_url |-> ResultUrl(result.contest_id),
      error |-> "" ]

\* body of the status response when makeApiRequest returned `result`
StatusBody(task_id, result) ==
    [ type |-> "application/json",
      success |-> TRUE,
      task_id |-> task_id,
      status |-> Default(result, "status", "unknown"),
      progress |-> Default(result, "progress", 0),
      completed |-> Default(result, "completed", FALSE),
      result_url |-> IF Default(result, "completed", FALSE)
                     THEN ResultUrl(result.contest_id) ELSE NoUrl,
      error |-> "" ]

\* a fallback that reports the task as failed
StatusFallbackFailed(task_id, message) ==
    [ type |-> "application/json",
      success |-> FALSE,
      task_id |-> task_id,
      status |-> "failed",
      progress |-> 0,
      completed |-> FALSE,
      result_url |-> NoUrl,
      error |-> message ]

\* body of the status response when makeApiRequest threw
StatusFallback(task_id, message) ==
    [ type |-> "application/json",
      success |-> FALSE,
      task_id |-> task_id,
      status |-> "processing",
      progress |-> 0,
      completed |-> FALSE,
      result_url |-> NoUrl,
      error |-> message ]

\* TaskStatusHandler.get up to its call of makeApiRequest
TaskStatusHandlerGet(h) ==
    /\ handler = "none"
    /\ calls < MaxCalls
    /\ \E t \in 1..(MaxTasks + 1), sc \in Scripts :
         /\ sc # <<>> => (Retrying(h) /\ t \in DOMAIN tasks)
         /\ request' = [task_id |-> t]
         /\ script' = sc
    /\ handler' = h
    /\ apiPc' = "fetch"
    /\ response' = NoResponse
    /\ calls' = calls + 1
    /\ attempt' = 1
    /\ sent' = 0
    /\ delays' = <<>>
    /\ replies' = <<>>
    /\ apiResult' = NoJson
    /\ UNCHANGED <<aggVars, updaterVars,tasks, terminalReported>>

\* TaskStatusHandler.get after makeApiRequest has returned or thrown
TaskStatusHandlerGetDone ==
    /\ IsStatus(handler)
    /\ apiPc \in {"returned", "thrown"}
    /\ response' =
         IF apiPc = "thrown"
         THEN StatusFallback(request.task_id, ErrorMessage(replies[Len(replies)]))
         ELSE StatusBody(request.task_id, apiResult)
    /\ terminalReported' =
         IF response'.status \in {"completed", "failed"}
         THEN terminalReported \cup {request.task_id}
         ELSE terminalReported
    /\ handler' = "none"
    /\ attempt' = 1
    /\ delays' = <<>>
    /\ replies' = <<>>
    /\ script' = <<>>
    /\ UNCHANGED <<aggVars, updaterVars,tasks, calls, request, apiPc, sent, apiResult>>

\* ----------------------------------------------------------- specification
Init ==
    /\ tasks = <<>>
    /\ calls = 0
    /\ handler = "none"
    /\ request = <<>>
    /\ apiPc = "idle"
    /\ attempt = 1
    /\ sent = 0
    /\ delays = <<>>
    /\ replies = <<>>
    /\ script = <<>>
    /\ apiResult = NoJson
    /\ response = NoResponse
    /\ terminalReported = {}
    /\ store = <<>>
    /\ page = NoPage
    /\ isRunning = FALSE
    /\ intervalId = NoInterval
    /\ timers = {}
    /\ handedOut = 0
    /\ inFlight = [id \in 1..MaxTimers |-> 0]
    /\ reloads = <<>>
    /\ lastCall = NoCall

Next ==
    \/ NewPlagiarismTaskHandlerPost("post_v1")
    \/ NewPlagiarismTaskHandlerPost("post_v2")
    \/ NewPlagiarismTaskHandlerPost("post_v3")
    \/ NewPlagiarismTaskHandlerPostDone
    \/ TaskStatusHandlerGet("status_v2")
    \/ TaskStatusHandlerGet("status_v3")
    \/ TaskStatusHandlerGetDone
    \/ makeApiRequest
    \/ makeApiRequestWake
    \/ makeApiRequestOnce
    \/ EngineStep

Spec == Init /\ [][Next]_vars

TypeOK ==
    /\ calls \in 0..MaxCalls
    /\ Len(tasks) <= MaxTasks
    /\ attempt \in 1..(maxRetries + 1)

(***************************************************************************)
(* Part 2: the result pages.  The contest list, contest detail and problem *)
(* detail handlers read the stored results of the engine                   *)
(* (check_plagiarism_results); the first draft's problem detail page reads *)
(* the engine over HTTP and fills in generated pairs.  Similarities are    *)
(* percentages, dates are positive integers, an average is the fraction    *)
(* num / den.                                                              *)
(***************************************************************************)

\* ------------------------------------------------------------ stored results
\* null of a Date
NoDate == 0
Dates == {1, 2}

\* pairs as the engine stores them: similarities.AVG and similarities.MAX
PairA == [similarities |-> [AVG |-> 80, MAX |-> 90]]
PairB == [similarities |-> [AVG |-> 40, MAX |-> 50]]
\* a pair whose average metric is missing
PairM == [similarities |-> [MAX |-> 60]]

\* the pair lists the results of a problem are drawn from
PairLists(p) == IF p = 1 THEN {<<PairA, PairB>>, <<PairM>>} ELSE {<<PairA>>, <<>>}

\* a stored result; created_at may be missing
Undated(c, p, l) == [contest_id |-> c, problem_id |-> p, high_similarity_pairs |-> l]
Dated(c, p, l, d) == ("created_at" :> d) @@ Undated(c, p, l)

Results ==
    UNION {{Undated("c1", p, l) : l \in PairLists(p)} : p \in {1, 2}}
    \cup UNION {{Dated("c1", p, l, d) : l \in PairLists(p), d \in Dates} : p \in {1, 2}}
    \cup {Dated("c2", 1, <<PairA>>, 2)}

\* what the document collection holds under docType 'plagiarism_result'
LegacyResults == {<<>>, <<Dated("c1", 2, <<PairB>>, 1)>>}

\* the contest document: missing, without a pids array, with one
NoDoc == [none |-> TRUE]
ContestDocs == {NoDoc, [title |-> "t"], [title |-> "t", pids |-> <<1, 2>>]}

\* find({contest_id: contestId}).toArray()
RECURSIVE find(_, _)
find(collection, contestId) ==
    IF collection = <<>> THEN <<>>
    ELSE IF Head(collection).contest_id = contestId
         THEN <<Head(collection)>> \o find(Tail(collection), contestId)
         ELSE find(Tail(collection), contestId)

\* the engine writes one more result; the pages are looked at once the
\* results are there
StoreResult ==
    /\ Len(store) < MaxResults
    /\ page = NoPage
    /\ \E r \in Results : store' = Append(store, r)
    /\ UNCHANGED <<taskVars, updaterVars, page>>

\* ---------------------------------------------------------- contest summary
\* Array.isArray(contestDoc.pids) ? contestDoc.pids.length : 0
TotalProblems(contestDoc) == IF Has(contestDoc, "pids") THEN Len(contestDoc.pids) ELSE 0

\* one entry per result instead of one per problem
ProblemIdPerResult(results) == {<<i, results[i].problem_id>> : i \in DOMAIN results}

\* the loop over the results: problemIds.add(result.problem_id)
RECURSIVE ProblemIds(_)
ProblemIds(results) ==
    IF results = <<>> THEN {}
    ELSE {Head(results).problem_id} \cup ProblemIds(Tail(results))

\* the date of the result that comes last
LastSeenAt(results, lastCheckAt) ==
    IF results = <<>> THEN lastCheckAt
    ELSE Default(results[Len(results)], "created_at", lastCheckAt)

\* the loop over the results: the running lastCheckAt
RECURSIVE LastCheckAt(_, _)
LastCheckAt(results, lastCheckAt) ==
    IF results = <<>> THEN lastCheckAt
    ELSE LET result == Head(results)
             checkTime == Default(result, "created_at", NoDate)
         IN  LastCheckAt(Tail(results),
                 IF checkTime # NoDate /\ (lastCheckAt = NoDate \/ checkTime > lastCheckAt)
                 THEN checkTime ELSE lastCheckAt)

\* one entry of the contest list
ContestInfo(results, contestId, contestDoc) ==
    [id |-> contestId,
     total_problems |-> IF contestDoc = NoDoc THEN 0 ELSE TotalProblems(contestDoc),
     checked_problems |-> Cardinality(ProblemIds(find(results, contestId))),
     last_check_at |-> LastCheckAt(find(results, contestId), NoDate)]

\* contest ids in the order the Map first sees them
RECURSIVE ContestIds(_, _)
ContestIds(results, seen) ==
    IF results = <<>> THEN <<>>
    ELSE IF Head(results).contest_id \in seen THEN ContestIds(Tail(results), seen)
         ELSE <<Head(results).contest_id>>
              \o ContestIds(Tail(results), seen \cup {Head(results).contest_id})

\* the comparator of contests.sort is negative
SortsBefore(a, b) ==
    /\ a.last_check_at # NoDate
    /\ b.last_check_at = NoDate \/ a.last_check_at > b.last_check_at

\* insertion of one element into a sorted list
RECURSIVE Insert(_, _)
Insert(x, sorted) ==
    IF sorted = <<>> THEN <<x>>
    ELSE IF SortsBefore(x, sorted[Len(sorted)])
         THEN Append(Insert(x, SubSeq(sorted, 1, Len(sorted) - 1)), sorted[Len(sorted)])
         ELSE Append(sorted, x)

RECURSIVE SortContests(_, _)
SortContests(contests, sorted) ==
    IF contests = <<>> THEN sorted
    ELSE SortContests(Tail(contests), Insert(Head(contests), sorted))

\* ContestPlagiarismListHandler.get
ContestPlagiarismListHandlerGet ==
    /\ \E docs \in [{store[i].contest_id : i \in DOMAIN store} -> ContestDocs] :
          LET ids == ContestIds(store, {})
              contests == [i \in DOMAIN ids |-> ContestInfo(store, ids[i], docs[ids[i]])]
          IN  page' = [handler |-> "contest_list",
                       input |-> [docs |-> docs, results |-> store],
                       body |-> [contests |-> SortContests(contests, <<>>)]]
    /\ UNCHANGED <<taskVars, updaterVars, store>>

\* ----------------------------------------------------------- contest detail
\* getContestInfo returns null
NoContestInfo == [none |-> TRUE]

\* ContestPlagiarismDetailHandler.getContestInfo
getContestInfo(contestId, contestDoc) ==
    IF contestDoc = NoDoc THEN NoContestInfo
    ELSE LET plagiarismResults == find(store, contestId)
         IN  [id |-> contestId,
              total_problems |-> TotalProblems(contestDoc),
              checked_problems |-> Cardinality(ProblemIds(plagiarismResults)),
              last_check_at |-> LastCheckAt(plagiarismResults, NoDate)]

Max(a, b) == IF a >= b THEN a ELSE b

\* a pair's peak that looks at the average metric alone
PairPeakAvgOnly(pair) == Default(pair.similarities, "AVG", 0)

\* Math.max(maxSimilarity, pair.similarities?.AVG || 0, pair.similarities?.MAX || 0)
PairPeak(pair) ==
    Max(Default(pair.similarities, "AVG", 0), Default(pair.similarities, "MAX", 0))

\* the forEach over result.high_similarity_pairs, starting from maxSimilarity
RECURSIVE MaxSimilarity(_, _)
MaxSimilarity(pairs, maxSimilarity) ==
    IF pairs = <<>> THEN maxSimilarity
    ELSE MaxSimilarity(Tail(pairs), Max(maxSimilarity, PairPeak(Head(pairs))))

DefaultLanguages == <<"C++", "Java", "Python">>

\* the entry a problem gets when the Map first sees it
NewProblemInfo(problemId) ==
    [id |-> problemId,
     languages |-> <<>>,
     last_check_at |-> NoDate,
     plagiarism_result |-> [none |-> TRUE],
     high_similarity_pairs |-> 0,
     max_similarity |-> 0]

\* one iteration of the loop over the results: every field of the entry is
\* overwritten from this result
UpdateProblemInfo(problem, result) ==
    [id |-> problem.id,
     languages |-> IF result.high_similarity_pairs # <<>> /\ problem.languages = <<>>
                   THEN DefaultLanguages ELSE problem.languages,
     last_check_at |-> Default(result, "created_at", NoDate),
     plagiarism_result |-> [high_similarity_pairs |-> result.high_similarity_pairs,
                            created_at |-> Default(result, "created_at", NoDate)],
     high_similarity_pairs |-> Len(result.high_similarity_pairs),
     max_similarity |-> MaxSimilarity(result.high_similarity_pairs, 0)]

\* the loop over the results, problemsMap keyed by problem_id
RECURSIVE GroupProblems(_, _)
GroupProblems(results, problemsMap) ==
    IF results = <<>> THEN problemsMap
    ELSE LET result == Head(results)
             problemId == result.problem_id
             problem == IF problemId \in DOMAIN problemsMap
                        THEN problemsMap[problemId] ELSE NewProblemInfo(problemId)
         IN  GroupProblems(Tail(results),
                 (problemId :> UpdateProblemInfo(problem, result)) @@ problemsMap)

\* Array.from(problemsMap.values()).sort((a, b) => a.id - b.id)
RECURSIVE SortById(_)
SortById(problemsMap) ==
    IF DOMAIN problemsMap = {} THEN <<>>
    ELSE LET least == CHOOSE p \in DOMAIN problemsMap :
                          \A q \in DOMAIN problemsMap : p <= q
         IN  <<problemsMap[least]>>
             \o SortById([p \in DOMAIN problemsMap \ {least} |-> problemsMap[p]])

\* the results getContestProblems works on: the document collection first,
\* check_plagiarism_results when that has none
ProblemResults(contestId, legacy) ==
    IF find(legacy, contestId) # <<>> THEN find(legacy, contestId)
    ELSE find(store, contestId)

\* ContestPlagiarismDetailHandler.getContestProblems
getContestProblems(contestId, legacy) ==
    SortById(GroupProblems(ProblemResults(contestId, legacy), <<>>))

\* null of a number that is a fraction
NoNumber == [num |-> 0, den |-> 0]

\* the inner forEach of calculateAverageSimilarity: push AVG when it is a number
RECURSIVE PushAvg(_, _)
PushAvg(pairs, similarities) ==
    IF pairs = <<>> THEN similarities
    ELSE PushAvg(Tail(pairs),
             IF Has(Head(pairs).similarities, "AVG")
             THEN Append(similarities, Head(pairs).similarities.AVG)
             ELSE similarities)

\* the outer forEach of calculateAverageSimilarity
RECURSIVE CollectSimilarities(_, _)
CollectSimilarities(problems, similarities) ==
    IF problems = <<>> THEN similarities
    ELSE CollectSimilarities(Tail(problems),
             PushAvg(Head(problems).plagiarism_result.high_similarity_pairs, similarities))

RECURSIVE Sum(_)
Sum(numbers) == IF numbers = <<>> THEN 0 ELSE Head(numbers) + Sum(Tail(numbers))

\* ContestPlagiarismDetailHandler.calculateAverageSimilarity
calculateAverageSimilarity(problems) ==
    LET similarities == CollectSimilarities(problems, <<>>)
    IN  IF Len(similarities) > 0
        THEN [num |-> Sum(similarities), den |-> Len(similarities)]
        ELSE NoNumber

\* problems.reduce((sum, p) => sum + pairs.length, 0)
RECURSIVE totalHighSimilarity(_)
totalHighSimilarity(problems) ==
    IF problems = <<>> THEN 0
    ELSE Len(Head(problems).plagiarism_result.high_similarity_pairs)
         + totalHighSimilarity(Tail(problems))

\* ContestPlagiarismDetailHandler.get
ContestPlagiarismDetailHandlerGet ==
    /\ \E contest_id \in Contests, contestDoc \in ContestDocs, legacy \in LegacyResults :
          LET contest == getContestInfo(contest_id, contestDoc)
              problems == getContestProblems(contest_id, legacy)
              input == [contest_id |-> contest_id, doc |-> contestDoc,
                        results |-> store, legacy |-> legacy]
          IN  page' = IF contest = NoContestInfo
                      THEN [handler |-> "contest_detail", input |-> input,
                            thrown |-> "NotFoundError"]
                      ELSE [handler |-> "contest_detail", input |-> input,
                            body |-> [contest |-> contest,
                                      problems |-> problems,
                                      total_high_similarity |-> totalHighSimilarity(problems),
                                      avg_similarity |-> calculateAverageSimilarity(problems)]]
    /\ UNCHANGED <<taskVars, updaterVars, store>>

\* ----------------------------------------------------------- problem detail
NoResult == [none |-> TRUE]

\* results of one problem of one contest, in store order
RECURSIVE findProblem(_, _, _)
findProblem(collection, contestId, problemId) ==
    IF collection = <<>> THEN <<>>
    ELSE IF Head(collection).contest_id = contestId /\ Head(collection).problem_id = problemId
         THEN <<Head(collection)>> \o findProblem(Tail(collection), contestId, problemId)
         ELSE findProblem(Tail(collection), contestId, problemId)

\* findOne({contest_id, problem_id}): the first match
findOne(contestId, problemId) ==
    LET matches == findProblem(store, contestId, problemId)
    IN  IF matches = <<>> THEN {NoResult} ELSE {Head(matches)}

\* findOne({contest_id, problem_id}, {sort: {created_at: -1}}): a match with
\* the greatest created_at, a missing created_at sorting last
findOneSorted(contestId, problemId) ==
    LET matches == findProblem(store, contestId, problemId)
        at(i) == Default(matches[i], "created_at", NoDate)
    IN  IF matches = <<>> THEN {NoResult}
        ELSE {matches[i] : i \in {i \in DOMAIN matches : \A j \in DOMAIN matches : at(i) >= at(j)}}

\* ProblemPlagiarismDetailHandler.get of the second draft ("problem_v2") and
\* of the restructured plugin ("problem_v3")
ProblemPlagiarismDetailHandlerGet(h) ==
    /\ \E contest_id \in Contests, problem_id \in {1, 2},
          contestDoc \in {NoDoc, [title |-> "t"]} :
       \E plagiarismResult \in IF h = "problem_v2" THEN findOne(contest_id, problem_id)
                               ELSE findOneSorted(contest_id, problem_id) :
          LET input == [contest_id |-> contest_id, problem_id |-> problem_id,
                        doc |-> contestDoc, results |-> store]
          IN  page' =
                IF contestDoc = NoDoc
                THEN [handler |-> h, input |-> input, thrown |-> "NotFoundError"]
                ELSE IF plagiarismResult = NoResult
                THEN [handler |-> h, input |-> input,
                      body |-> [problem |-> [id |-> problem_id],
                                error |-> "no plagiarism data"]]
                ELSE [handler |-> h, input |-> input,
                      body |-> [problem |->
                                    [id |-> problem_id,
                                     high_similarity_pairs |->
                                         Len(plagiarismResult.high_similarity_pairs)],
                                plagiarism_result |-> plagiarismResult]]
    /\ UNCHANGED <<taskVars, updaterVars, store>>

\* ------------------------------------------ problem detail of the first draft
\* data of GET .../languages
LangCC == [language |-> "cc", submission_count |-> 4, unique_users |-> 3, can_analyze |-> TRUE]
LangPy == [language |-> "py", submission_count |-> 2, unique_users |-> 2, can_analyze |-> TRUE]
LangTxt == [language |-> "txt", submission_count |-> 5, unique_users |-> 1, can_analyze |-> FALSE]
LanguageStats == {<<>>, <<LangCC>>, <<LangPy, LangTxt>>, <<LangCC, LangPy>>}

\* data of GET .../plagiarism: none, or the engine's result with the threshold
\* the analysis ran with
NoData == [none |-> TRUE]
PlagiarismResults == {NoData, [similarity_threshold |-> DefaultSimilarityThreshold]}

\* Math.random() * 0.6 + 0.3, in percent
MockSimilarities == {30, 60, 89}
\* Math.random() * 0.1, in percent
MockExtras == {0, 9}

\* what one round of the loop of generateMockPairs can push; the user ids,
\* token counts and code lines are drawn the same way
MockPairs ==
    {[avg_similarity |-> s, max_similarity |-> s + e, code_matches |-> TRUE] :
        s \in MockSimilarities, e \in MockExtras}

Min(a, b) == IF a <= b THEN a ELSE b

\* pairs.sort((a, b) => b.avg_similarity - a.avg_similarity): one insertion
RECURSIVE InsertPair(_, _)
InsertPair(x, sorted) ==
    IF sorted = <<>> THEN <<x>>
    ELSE IF x.avg_similarity > sorted[Len(sorted)].avg_similarity
         THEN Append(InsertPair(x, SubSeq(sorted, 1, Len(sorted) - 1)), sorted[Len(sorted)])
         ELSE Append(sorted, x)

RECURSIVE SortPairs(_, _)
SortPairs(pairs, sorted) ==
    IF pairs = <<>> THEN sorted
    ELSE SortPairs(Tail(pairs), InsertPair(Head(pairs), sorted))

\* Math.min(5, Math.floor(submissionCount / 2))
NumPairs(submissionCount) == Min(5, submissionCount \div 2)

\* generateMockPairs; random[i] is what Math.random gives in round i
generateMockPairs(submissionCount, random) ==
    SortPairs([i \in 1..NumPairs(submissionCount) |-> random[i]], <<>>)

RECURSIVE SumAvg(_)
SumAvg(pairs) == IF pairs = <<>> THEN 0 ELSE Head(pairs).avg_similarity + SumAvg(Tail(pairs))

\* the body of languageStats.forEach for a stat that can be analysed
LangResult(stat, plagiarismResult, random) ==
    LET similarity_pairs == IF plagiarismResult # NoData
                            THEN generateMockPairs(stat.submission_count, random)
                            ELSE <<>>
    IN  [language |-> stat.language,
         submission_count |-> stat.submission_count,
         unique_users |-> stat.unique_users,
         similarity_pairs |-> similarity_pairs,
         avg_similarity |-> IF Len(similarity_pairs) > 0
                            THEN [num |-> SumAvg(similarity_pairs), den |-> Len(similarity_pairs)]
                            ELSE [num |-> 0, den |-> 1],
         high_similarity_pairs |-> similarity_pairs]

\* rounds of Math.random one stat uses up
Rounds(stat, plagiarismResult) ==
    IF stat.can_analyze /\ plagiarismResult # NoData
    THEN NumPairs(stat.submission_count) ELSE 0

RECURSIVE TotalRounds(_, _)
TotalRounds(languageStats, plagiarismResult) ==
    IF languageStats = <<>> THEN 0
    ELSE Rounds(Head(languageStats), plagiarismResult)
         + TotalRounds(Tail(languageStats), plagiarismResult)

\* getLanguageResults of the first draft; random is what Math.random is still
\* to give
RECURSIVE getLanguageResults(_, _, _)
getLanguageResults(languageStats, plagiarismResult, random) ==
    IF languageStats = <<>> THEN <<>>
    ELSE LET stat == Head(languageStats)
             rest == getLanguageResults(Tail(languageStats), plagiarismResult,
                         SubSeq(random, Rounds(stat, plagiarismResult) + 1, Len(random)))
         IN  IF ~stat.can_analyze THEN rest
             ELSE <<LangResult(stat, plagiarismResult, random)>> \o rest

\* ProblemPlagiarismDetailHandler.get of the first draft ("problem_v1"):
\* found says whether the engine knows the contest and the problem
ProblemPlagiarismDetailHandlerGetV1 ==
    /\ \E found \in BOOLEAN, languageStats \in LanguageStats,
          plagiarismResult \in PlagiarismResults :
       \E random \in [1..TotalRounds(languageStats, plagiarismResult) -> MockPairs] :
          LET input == [found |-> found, languages |-> languageStats,
                        plagiarism |-> plagiarismResult]
          IN  page' =
                IF ~found
                THEN [handler |-> "problem_v1", input |-> input, thrown |-> "NotFoundError"]
                ELSE [handler |-> "problem_v1", input |-> input,
                      body |-> [language_results |->
                                    getLanguageResults(languageStats, plagiarismResult,
                                                       random)]]
    /\ UNCHANGED <<taskVars, updaterVars, store>>

\* ---------------------------------------------- specification of the pages
NextPages ==
    \/ StoreResult
    \/ ContestPlagiarismListHandlerGet
    \/ ContestPlagiarismDetailHandlerGet
    \/ ProblemPlagiarismDetailHandlerGet("problem_v2")
    \/ ProblemPlagiarismDetailHandlerGet("problem_v3")

SpecPages == Init /\ [][NextPages]_vars

\* ------------------------------------------------- enhanced contest list
\* data of GET /api/v1/jplag/enhanced/contests when the call succeeds
EngineContest ==
    [contest_id |-> "c1", title |-> "t", problems_count |-> 2, submissions_count |-> 4,
     high_similarity_pairs |-> 1, risk_level |-> "low", last_analysis |-> 1]
EnhancedContests == {<<>>, <<EngineContest>>}

\* the list getEnhancedContestList returns from its catch block
MockContestList ==
    <<[contest_id |-> "contest_001", title |-> "Algorithm Contest 2024",
       problems_count |-> 5, submissions_count |-> 150, high_similarity_pairs |-> 12,
       risk_level |-> "medium", last_analysis |-> 2],
      [contest_id |-> "contest_002", title |-> "Data Structure Challenge",
       problems_count |-> 8, submissions_count |-> 200, high_similarity_pairs |-> 8,
       risk_level |-> "low", last_analysis |-> 1]>>

\* getEnhancedContestList: failed says makeEnhancedApiRequest threw
getEnhancedContestList(failed, data) == IF failed THEN MockContestList ELSE data

\* EnhancedContestListHandler.get
EnhancedContestListHandlerGet ==
    /\ \E failed \in BOOLEAN, data \in EnhancedContests :
          LET contests == getEnhancedContestList(failed, data)
          IN  page' = [handler |-> "enhanced_list",
                       input |-> [failed |-> failed, data |-> IF failed THEN <<>> ELSE data],
                       body |-> [contests |-> contests, total_contests |-> Len(contests)]]
    /\ UNCHANGED <<taskVars, updaterVars, store>>

\* ------------------------------------- contest detail of the first draft
\* a failed request: makeApiRequest threw, or the engine said success: false
Thrown == [kind |-> "thrown"]
Unsuccessful == [kind |-> "unsuccessful"]

\* what /api/v1/contest/:id/problems gives
ProblemsResults ==
    {Thrown, Unsuccessful} \cup
    {[kind |-> "data", data |-> l] :
        l \in {<<>>, <<[id |-> 1]>>, <<[id |-> 1], [id |-> 2], [id |-> 3]>>}}

\* what /api/v1/contest/:id/problem/:pid/plagiarism gives; data may be null
\* and a result may lack high_similarity_pairs
ResultResponses ==
    {Thrown, Unsuccessful, [kind |-> "no data"]} \cup
    {[kind |-> "data", data |-> r] :
        r \in {[high_similarity_pairs |-> <<PairA, PairM>>],
               [high_similarity_pairs |-> <<PairB>>],
               [status |-> "pending"]}}

\* the ids of the problems of a reply
ProblemsOf(problemsResult) ==
    IF problemsResult.kind = "data"
    THEN {problemsResult.data[i].id : i \in DOMAIN problemsResult.data}
    ELSE {}

RECURSIVE forProblems(_, _)

\* a failure in the loop that would leave getContestProblems by its outer catch
OuterCatch(problem, rest, responses) == <<>>

\* the catch in the loop: a warning is logged and the loop goes on
InnerCatch(problem, rest, responses) == <<problem>> \o forProblems(rest, responses)

\* for (const problem of problems) of getContestProblems
forProblems(problems, responses) ==
    IF problems = <<>> THEN <<>>
    ELSE LET problem == Head(problems) @@ ("last_check_at" :> NoDate)
             resultResponse == responses[problem.id]
         IN  IF resultResponse.kind = "thrown"
             THEN InnerCatch(problem, Tail(problems), responses)
             ELSE <<IF resultResponse.kind = "data"
                    THEN problem @@ ("plagiarism_result" :> resultResponse.data)
                    ELSE problem>>
                  \o forProblems(Tail(problems), responses)

\* ContestPlagiarismDetailHandler.getContestProblems of the first draft
getContestProblemsV1(problemsResult, responses) ==
    IF problemsResult.kind # "data" THEN <<>>
    ELSE forProblems(problemsResult.data, responses)

\* p.plagiarism_result?.high_similarity_pairs || []
PairsOrNone(problem) ==
    IF Has(problem, "plagiarism_result")
    THEN Default(problem.plagiarism_result, "high_similarity_pairs", <<>>)
    ELSE <<>>

\* problems.reduce((sum, p) => sum + pairs.length, 0) of the first draft
RECURSIVE totalHighSimilarityV1(_)
totalHighSimilarityV1(problems) ==
    IF problems = <<>> THEN 0
    ELSE Len(PairsOrNone(Head(problems))) + totalHighSimilarityV1(Tail(problems))

\* the outer forEach of calculateAverageSimilarity of the first draft
RECURSIVE CollectSimilaritiesV1(_, _)
CollectSimilaritiesV1(problems, similarities) ==
    IF problems = <<>> THEN similarities
    ELSE CollectSimilaritiesV1(Tail(problems),
             PushAvg(PairsOrNone(Head(problems)), similarities))

\* ContestPlagiarismDetailHandler.calculateAverageSimilarity of the first draft
calculateAverageSimilarityV1(problems) ==
    LET similarities == CollectSimilaritiesV1(problems, <<>>)
    IN  IF Len(similarities) > 0
        THEN [num |-> Sum(similarities), den |-> Len(similarities)]
        ELSE NoNumber

\* what getContestInfo of the first draft returns: the contest of the
\* engine's list, or null when the request failed or the contest is not in it
ContestInfosV1 == {NoContestInfo, [id |-> "c1", name |-> "t"]}

\* ContestPlagiarismDetailHandler.get of the first draft
ContestPlagiarismDetailHandlerGetV1 ==
    /\ \E contest \in ContestInfosV1, problemsResult \in ProblemsResults :
       \E responses \in [ProblemsOf(problemsResult) -> ResultResponses] :
          LET problems == getContestProblemsV1(problemsResult, responses)
              input == [contest |-> contest, problemsResult |-> problemsResult,
                        responses |-> responses]
          IN  page' = IF contest = NoContestInfo
                      THEN [handler |-> "contest_v1", input |-> input,
                            thrown |-> "NotFoundError"]
                      ELSE [handler |-> "contest_v1", input |-> input,
                            body |-> [contest |-> contest,
                                      problems |-> problems,
                                      total_high_similarity |-> totalHighSimilarityV1(problems),
                                      avg_similarity |-> calculateAverageSimilarityV1(problems)]]
    /\ UNCHANGED <<taskVars, updaterVars, store>>

\* ------------------------------------- the handlers of the contest plugin
\* how the request of getContestPlagiarismResults ends: fetch rejects, the
\* status is not 2xx, the engine says success: false, or data arrives
ResultsRequests ==
    {[kind |-> "rejected"], [kind |-> "not ok"], [kind |-> "unsuccessful"]} \cup
    {[kind |-> "data", data |-> l] :
        l \in {<<>>, <<[_id |-> "r1"]>>, <<[_id |-> "r1"], [_id |-> "r2"]>>}}

\* getContestPlagiarismResults: the data, or an Error thrown anew by its catch
getContestPlagiarismResults(fetched) ==
    IF fetched.kind = "data"
    THEN [data |-> fetched.data]
    ELSE [thrown |-> "Request failed"]

\* the handler leaves by NotFoundError or PermissionError before any request
Refused(h, input) ==
    IF ~input.tdoc THEN [handler |-> h, input |-> input, thrown |-> "NotFoundError"]
    ELSE [handler |-> h, input |-> input, thrown |-> "PermissionError"]

\* PlagiarismMainHandler.get
PlagiarismMainHandlerGet ==
    /\ \E tdoc \in BOOLEAN, permitted \in BOOLEAN, fetched \in ResultsRequests :
          LET input == [tdoc |-> tdoc, permitted |-> permitted, request |-> fetched]
              got == getContestPlagiarismResults(fetched)
          IN  page' = IF ~tdoc \/ ~permitted THEN Refused("plagiarism_main", input)
                      ELSE [handler |-> "plagiarism_main", input |-> input,
                            body |-> IF Has(got, "thrown")
                                     THEN [results |-> <<>>, error |-> got.thrown]
                                     ELSE [results |-> got.data, error |-> "null"]]
    /\ UNCHANGED <<taskVars, updaterVars, store>>

\* results.find(r => r._id === rid)
RECURSIVE findResult(_, _)
findResult(results, rid) ==
    IF results = <<>> THEN NoResult
    ELSE IF Head(results)._id = rid THEN Head(results)
         ELSE findResult(Tail(results), rid)

\* PlagiarismExportHandler.get
PlagiarismExportHandlerGet ==
    /\ \E tdoc \in BOOLEAN, permitted \in BOOLEAN, fetched \in ResultsRequests,
          rid \in {"r1", "r2"} :
          LET input == [tdoc |-> tdoc, permitted |-> permitted, request |-> fetched,
                        rid |-> rid]
              got == getContestPlagiarismResults(fetched)
          IN  page' = IF ~tdoc \/ ~permitted THEN Refused("plagiarism_export", input)
                      ELSE IF Has(got, "thrown")
                      THEN [handler |-> "plagiarism_export", input |-> input,
                            thrown |-> got.thrown]
                      ELSE IF findResult(got.data, rid) = NoResult
                      THEN [handler |-> "plagiarism_export", input |-> input,
                            thrown |-> "NotFoundError"]
                      ELSE [handler |-> "plagiarism_export", input |-> input,
                            body |-> [json |-> findResult(got.data, rid)]]
    /\ UNCHANGED <<taskVars, updaterVars, store>>

\* the drafts that read the engine keep nothing between two requests
NextDraft ==
    \/ ProblemPlagiarismDetailHandlerGetV1
    \/ EnhancedContestListHandlerGet
    \/ ContestPlagiarismDetailHandlerGetV1
    \/ PlagiarismMainHandlerGet
    \/ PlagiarismExportHandlerGet

SpecDraft == Init /\ [][NextDraft]_vars

\* ------------------------------------------------------------------ claims
\* the current or last call of the retrying makeApiRequest
RetryCall == Retrying(handler) /\ replies # <<>>

CallOver == apiPc \in {"returned", "thrown"}

\* progress of a call whose attempts have all failed in a retryable way:
\* at most 3 requests, 1000 ms after the 1st and 2000 ms after the 2nd
\* failure, and an error after the 3rd
ThreeAttemptsThenError ==
    /\ sent = Len(replies)
    /\ sent <= 3
    /\ sent < 3 => /\ apiPc \in {"sleep", "fetch"}
                   /\ delays = [i \in 1..sent |-> 1000 * i]
    /\ sent = 3 => /\ apiPc = "thrown"
                   /\ delays = <<1000, 2000>>

\* C1: when every reply is a status >= 500, one call of the retrying
\* makeApiRequest issues exactly 3 requests, waits 1000 ms after the 1st and
\* 2000 ms after the 2nd failure, then throws; a 4th request is never issued.
C1_ServerErrorsRetriedThreeTimes ==
    (RetryCall /\ \A i \in 1..Len(replies) : replies[i] >= 500)
        => ThreeAttemptsThenError

C1_Witness ==
    /\ Retrying(handler)
    /\ replies = <<500, 500, 500>>
    /\ apiPc = "thrown"
    /\ delays = <<1000, 2000>>
    /\ sent = 3

\* C2: a 4xx reply makes the retrying makeApiRequest fail at once: that
\* request is the only one of the call, and no delay and no retry follow.
C2_ClientErrorFailsImmediately ==
    (RetryCall /\ replies[1] \in 400..499)
        => (sent = 1 /\ delays = <<>> /\ apiPc = "thrown")

\* C3: a rejected fetch is handled like a 5xx reply: re-issued after
\* attempt x 1000 ms, at most 3 attempts, the error thrown only after the 3rd.
C3_NetworkFailureRetriedLikeServerError ==
    (/\ RetryCall
     /\ \A i \in 1..Len(replies) : replies[i] = NetFail \/ replies[i] >= 500
     /\ \E i \in 1..Len(replies) : replies[i] = NetFail)
        => ThreeAttemptsThenError

C3_Witness ==
    /\ Retrying(handler)
    /\ replies = <<NetFail, NetFail, NetFail>>
    /\ apiPc = "thrown"
    /\ delays = <<1000, 2000>>

\* what the server of the current call answers: the replies given so far
\* followed by the rest of its script
ServerBehaviour == replies \o script

\* C4 as stated: a server answering 500, 500, 500, 200 makes the call succeed
\* with the JSON of the 200 reply after exactly 3 retries.
C4_SucceedsAfterThreeRetries ==
    (Retrying(handler) /\ CallOver /\ ServerBehaviour = <<500, 500, 500, 200>>)
        => (apiPc = "returned" /\ sent = 4 /\ apiResult # NoJson)

\* C4 amended: a server answering 500, 500, 200 makes the call succeed with
\* the JSON of the 200 reply after exactly 2 retries; a server answering
\* 500, 500, 500, 200 makes the call throw after the 3rd request, and the 200
\* is never requested.
C4_SucceedsAfterTwoRetries ==
    /\ (Retrying(handler) /\ CallOver /\ ServerBehaviour = <<500, 500, 200>>)
         => /\ apiPc = "returned"
            /\ sent = 3
            /\ delays = <<1000, 2000>>
            /\ apiResult # NoJson
            /\ IsStatus(handler) =>
                    apiResult.contest_id = tasks[request.task_id].contest
    /\ (Retrying(handler) /\ ServerBehaviour = <<500, 500, 500, 200>> /\ sent >= 3)
         => /\ apiPc = "thrown"
            /\ sent = 3
            /\ script = <<200>>

C4_Witness ==
    /\ Retrying(handler)
    /\ apiPc = "returned"
    /\ replies = <<500, 500, 200>>
    /\ Has(apiResult, "status")

IsStatusResponse == Has(response, "type")

\* the status response of a poll whose request to the engine failed
FailedPoll == IsStatusResponse /\ apiPc = "thrown"

\* C5 as stated: a failed poll is answered with status 'processing' and
\* completed = false, and neither marked as a failure nor carrying the error.
C5_FailedPollHidesError ==
    FailedPoll =>
        /\ response.status = "processing"
        /\ response.completed = FALSE
        /\ response.success = TRUE
        /\ response.error = ""

\* C5 amended: a failed poll is answered (not thrown) with status
\* 'processing', completed = false and no result_url; the body is marked
\* success = false and carries the error message.
C5_FailedPollReportsProcessing ==
    FailedPoll =>
        /\ response.status = "processing"
        /\ response.completed = FALSE
        /\ response.progress = 0
        /\ response.result_url = <<>>
        /\ response.success = FALSE
        /\ response.error # ""

C5_Witness ==
    /\ FailedPoll
    /\ response.error = "API request failed: fetch failed"
    /\ response.task_id \in DOMAIN tasks
    /\ tasks[response.task_id].state = "processing"
    /\ response.status = "processing"

\* C6: once a poll has reported a task completed or failed, no later poll of
\* that task reports a non-terminal state, also when its request fails.
C6_ReportedStateOnlyMovesForward ==
    (IsStatusResponse /\ response.task_id \in terminalReported)
        => response.status \in {"completed", "failed"}

IsSubmission == calls > 0 /\ ~Has(request, "task_id")

\* C8: a submission whose problem_ids is empty, missing or not an array ends
\* in a validation error, and no request is sent to the engine.
C8_EmptyProblemsRejectedBeforeRequest ==
    (/\ IsSubmission
     /\ \/ ~Has(request, "problem_ids")
        \/ ~request.problem_ids.array
        \/ request.problem_ids.items = <<>>)
        => /\ sent = 0
           /\ handler = "none"
           /\ apiPc = "idle"
           /\ response.template = "new_task.html"
           /\ response.error \in {"select a contest", "select at least one problem"}

C8_Witness ==
    /\ IsSubmission
    /\ Has(request, "contest_id")
    /\ Has(request, "problem_ids")
    /\ request.problem_ids = [array |-> TRUE, items |-> <<>>]
    /\ response.template = "new_task.html"
    /\ response.error = "select at least one problem"
    /\ sent = 0

\* C9: a submission whose minTokens is not a positive integer or whose
\* similarityThreshold lies outside [0,1] fails with a validation error and
\* never reaches the engine.
C9_ParametersValidatedBeforeRequest ==
    (/\ IsSubmission
     /\ \/ /\ Has(request, "min_tokens")
           /\ request.min_tokens <= 0 \/ request.min_tokens % 100 # 0
        \/ /\ Has(request, "similarity_threshold")
           /\ request.similarity_threshold \notin 0..100)
        => sent = 0

\* C10: the page shown after a successful submission carries the task id
\* the engine issued in data.task_id, never null.
C10_EngineTaskIdShown ==
    (Has(response, "template") /\ response.template = "task_submitted.html")
        => /\ response.task_id # 0
           /\ response.task_id = apiResult.data.task_id

\* ---------------------------------------------------- claims on the pages
\* the pair lists of a rendered first-draft problem page
LanguageResults == page.body.language_results

DraftProblemPage == page.handler = "problem_v1" /\ Has(page, "body")

\* C11: every pair listed in high_similarity_pairs has a similarity of at
\* least the threshold the analysis ran with.
C11_HighPairsReachThreshold ==
    (DraftProblemPage /\ page.input.plagiarism # NoData) =>
        \A i \in DOMAIN LanguageResults :
            \A j \in DOMAIN LanguageResults[i].high_similarity_pairs :
                LanguageResults[i].high_similarity_pairs[j].avg_similarity
                    >= page.input.plagiarism.similarity_threshold

\* C12: rendering a problem's results twice from the same backend responses
\* gives the same output.
C12_SameResponsesSameOutput ==
    [][(page.handler = "problem_v1" /\ page'.handler = "problem_v1"
            /\ page'.input = page.input) => page' = page]_vars

\* fields that would mark an entry as placeholder data
MockTags == {"mock", "is_mock", "sample", "placeholder", "generated", "demo"}

Tagged(obj) == \E tag \in MockTags : Has(obj, tag)

\* the page shows entries the plugin made up
ShowsGenerated ==
    \/ DraftProblemPage /\ \E i \in DOMAIN LanguageResults :
                               LanguageResults[i].similarity_pairs # <<>>
    \/ page.handler = "enhanced_list" /\ page.input.failed

\* the entries of the page that are lists of such entries
GeneratedLists ==
    IF page.handler = "enhanced_list" THEN {page.body.contests}
    ELSE {LanguageResults[i].similarity_pairs : i \in DOMAIN LanguageResults}

\* C13: generated entries are tagged: the response, or each generated entry,
\* carries a field that tells it from engine output.
C13_GeneratedEntriesAreTagged ==
    ShowsGenerated =>
        \/ Tagged(page.body)
        \/ \A list \in GeneratedLists : \A k \in DOMAIN list : Tagged(list[k])

\* a contest detail page that was rendered
DetailPage == page.handler = "contest_detail" /\ Has(page, "body")

\* the pairs of all problems of the page, taken together
RECURSIVE Flatten(_)
Flatten(problems) ==
    IF problems = <<>> THEN <<>>
    ELSE Head(problems).plagiarism_result.high_similarity_pairs \o Flatten(Tail(problems))

AllPairs == Flatten(page.body.problems)

\* the metric of a pair: the average when present, otherwise the maximum
Chosen(pair) ==
    IF Has(pair.similarities, "AVG") THEN pair.similarities.AVG ELSE pair.similarities.MAX

RECURSIVE SumChosen(_)
SumChosen(pairs) == IF pairs = <<>> THEN 0 ELSE Chosen(Head(pairs)) + SumChosen(Tail(pairs))

\* two fractions are the same number, or both are null
SameNumber(a, b) ==
    /\ a.den = 0 <=> b.den = 0
    /\ a.num * b.den = b.num * a.den

\* C14: the contest average is the mean of the chosen metric over all pairs
\* of all problems taken together, and null when there is no pair.
C14_AverageOverFlattenedPairs ==
    DetailPage =>
        SameNumber(page.body.avg_similarity,
                   [num |-> SumChosen(AllPairs), den |-> Len(AllPairs)])

LacksAvg(pair) == ~Has(pair.similarities, "AVG") /\ Has(pair.similarities, "MAX")

\* C15: a pair without the average metric still counts, through its maximum:
\* the contest average is taken over as many values as there are pairs.
C15_MaxOnlyPairContributes ==
    (DetailPage /\ \E k \in DOMAIN AllPairs : LacksAvg(AllPairs[k])) =>
        /\ page.body.avg_similarity.den = Len(AllPairs)
        /\ page.body.avg_similarity.num = SumChosen(AllPairs)

\* the greatest number of a non-empty set
Greatest(S) == CHOOSE m \in S : \A n \in S : m >= n

ProblemPairs(k) == page.body.problems[k].plagiarism_result.high_similarity_pairs

\* C16 as stated: max_similarity of a problem is the maximum of the chosen
\* metric over its pairs, 0 without pairs.
C16_MaxSimilarityOfChosenMetric ==
    DetailPage =>
        \A k \in DOMAIN page.body.problems :
            page.body.problems[k].max_similarity =
                Greatest({0} \cup {Chosen(ProblemPairs(k)[j]) : j \in DOMAIN ProblemPairs(k)})

\* C16 amended: max_similarity of a problem is the maximum, over its pairs,
\* of the larger of the pair's average and maximum metric (a missing metric
\* counts as 0), and 0 without pairs.
C16_MaxSimilarityOfEitherMetric ==
    DetailPage =>
        \A k \in DOMAIN page.body.problems :
            page.body.problems[k].max_similarity =
                Greatest({0}
                    \cup {Default(ProblemPairs(k)[j].similarities, "AVG", 0) :
                              j \in DOMAIN ProblemPairs(k)}
                    \cup {Default(ProblemPairs(k)[j].similarities, "MAX", 0) :
                              j \in DOMAIN ProblemPairs(k)})

\* a page with a problem without pairs, shown with max_similarity 0, and a
\* problem whose pairs have averages 80 and 40 and maxima 90 and 50, shown
\* with max_similarity 90
C16_Witness ==
    /\ DetailPage
    /\ \E k \in DOMAIN page.body.problems :
          ProblemPairs(k) = <<>> /\ page.body.problems[k].max_similarity = 0
    /\ \E k \in DOMAIN page.body.problems :
          ProblemPairs(k) = <<PairA, PairB>> /\ page.body.problems[k].max_similarity = 90

\* a contest list that was rendered
ListPage == page.handler = "contest_list"

\* the contest summaries of the page: the entries of the list, the contest of
\* the detail page
Summaries ==
    IF ListPage THEN {page.body.contests[k] : k \in DOMAIN page.body.contests}
    ELSE IF DetailPage THEN {page.body.contest}
    ELSE {}

\* positions of the results of a contest in check_plagiarism_results, as it
\* was when the page was rendered
StoredFor(contestId) ==
    {i \in DOMAIN page.input.results : page.input.results[i].contest_id = contestId}

C18_CheckedAtMostTotal ==
    \A summary \in Summaries : summary.checked_problems <= summary.total_problems

\* the creation dates the stored results of a contest carry
CreatedAts(contestId) ==
    {page.input.results[i].created_at :
        i \in {j \in StoredFor(contestId) : Has(page.input.results[j], "created_at")}}

ProblemPage ==
    page.handler \in {"problem_v2", "problem_v3"} /\ Has(page, "body")
        /\ Has(page.body, "plagiarism_result")

\* the results a page goes through for a problem, in the order the store
\* returned them
ResultsShown(problemId) ==
    LET contestId == page.input.contest_id
        results == IF DetailPage /\ find(page.input.legacy, contestId) # <<>>
                   THEN page.input.legacy ELSE page.input.results
    IN  findProblem(results, contestId, problemId)

\* the greatest created_at among them, null when none carries one
LatestOf(problemId) ==
    Greatest({NoDate} \cup {Default(ResultsShown(problemId)[i], "created_at", NoDate) :
                                i \in DOMAIN ResultsShown(problemId)})

\* C20: the result presented as current for a problem is the one with the
\* greatest created_at, on the contest detail and on the problem detail page.
C20_CurrentResultIsLatest ==
    /\ DetailPage =>
          \A k \in DOMAIN page.body.problems :
              /\ page.body.problems[k].last_check_at = LatestOf(page.body.problems[k].id)
              /\ page.body.problems[k].plagiarism_result.created_at
                     = LatestOf(page.body.problems[k].id)
    /\ ProblemPage =>
          Default(page.body.plagiarism_result, "created_at", NoDate)
              = LatestOf(page.input.problem_id)

\* C29: on a contest detail page checked_problems of the contest is the
\* number of entries of the problems list next to it.
C29_CheckedProblemsIsProblemCount ==
    DetailPage => page.body.contest.checked_problems = Len(page.body.problems)

\* ------------------------------------------- more claims on the client
\* C25: one submission creates at most one task: once the engine has accepted
\* the submission POST, the retrying makeApiRequest does not go on to send it
\* again.
C25_NoResendAfterAcceptance ==
    [][(handler = "post_v3" /\ Len(tasks') > Len(tasks)) => apiPc' # "sleep"]_vars

\* fetch() gave a 2xx response whose body parsed
Parsed(status) == status # NetFail /\ Ok(status) /\ JsonBody(status)

\* C26: a call of the retrying makeApiRequest that is over has returned the
\* parsed body of a 2xx response, its last one, or has thrown; no request
\* follows a parsed 2xx response.
C26_ReturnsParsedJsonOrThrows ==
    RetryCall =>
        /\ \A i \in 1..(Len(replies) - 1) : ~Parsed(replies[i])
        /\ apiPc = "returned" =>
              Parsed(replies[Len(replies)]) /\ apiResult # NoJson
        /\ apiPc = "thrown" => ~Parsed(replies[Len(replies)])
        /\ sent = Len(replies)
        /\ attempt <= maxRetries

\* a submission whose call returned the body of its third response
C26_Witness ==
    /\ RetryCall
    /\ CallOver
    /\ Len(replies) = maxRetries
    /\ apiPc = "returned" /\ handler = "post_v3"

(***************************************************************************)
(* Part 3: PlagiarismStatusUpdater of the browser script.  start() and     *)
(* stop() are called by the page, the browser fires the interval, and a    *)
(* status request completes at any later time.  After reload() the page    *)
(* lives on until the browser unloads it.                                  *)
(***************************************************************************)
otherVars == <<taskVars, store, page>>

\* a start() that never returns at once
NeverRunning == FALSE

\* start() returns at once
AlreadyRunning == isRunning

\* start()
start ==
    /\ lastCall' = [method |-> "start", wasRunning |-> isRunning]
    /\ IF AlreadyRunning
       THEN UNCHANGED <<isRunning, intervalId, timers, handedOut>>
       ELSE /\ handedOut < MaxTimers
            /\ isRunning' = TRUE
            /\ handedOut' = handedOut + 1
            /\ intervalId' = handedOut + 1
            /\ timers' = timers \cup {handedOut + 1}
    /\ UNCHANGED <<otherVars, inFlight, reloads>>

\* clearInterval(this.intervalId) when this.intervalId is set
Cleared == IF intervalId # NoInterval THEN timers \ {intervalId} ELSE timers

\* stop()
stop ==
    /\ lastCall' = [method |-> "stop", wasRunning |-> isRunning]
    /\ timers' = Cleared
    /\ intervalId' = NoInterval
    /\ isRunning' = FALSE
    /\ UNCHANGED <<otherVars, handedOut, inFlight, reloads>>

RECURSIVE SumUpTo(_, _)
SumUpTo(f, n) == IF n = 0 THEN 0 ELSE f[n] + SumUpTo(f, n - 1)

\* an interval fires: checkStatus() up to its await
checkStatus ==
    /\ SumUpTo(inFlight, MaxTimers) < MaxInFlight
    /\ \E id \in timers :
          inFlight' = [inFlight EXCEPT ![id] = @ + 1]
    /\ lastCall' = [method |-> "checkStatus", wasRunning |-> isRunning]
    /\ UNCHANGED <<otherVars, isRunning, intervalId, timers, handedOut, reloads>>

\* what a status request ends in: response.ok, another response, a rejection
FetchEnds == {"ok", "not ok", "rejected"}

\* checkStatus() after its await
checkStatusDone ==
    /\ \E id \in 1..MaxTimers, end \in FetchEnds :
          /\ inFlight[id] > 0
          /\ inFlight' = [inFlight EXCEPT ![id] = @ - 1]
          /\ IF end = "ok"
             THEN /\ timers' = Cleared
                  /\ intervalId' = NoInterval
                  /\ isRunning' = FALSE
                  /\ reloads' = Append(reloads, id)
             ELSE UNCHANGED <<timers, intervalId, isRunning, reloads>>
    /\ lastCall' = [method |-> "checkStatusDone", wasRunning |-> isRunning]
    /\ UNCHANGED <<otherVars, handedOut>>

\* the browser replaces the document after reload(): the script starts anew
Unload ==
    /\ reloads # <<>>
    /\ isRunning' = FALSE
    /\ intervalId' = NoInterval
    /\ timers' = {}
    /\ handedOut' = 0
    /\ inFlight' = [id \in 1..MaxTimers |-> 0]
    /\ reloads' = <<>>
    /\ lastCall' = NoCall
    /\ UNCHANGED otherVars

NextUpdater ==
    \/ start
    \/ stop
    \/ checkStatus
    \/ checkStatusDone
    \/ Unload

SpecUpdater == Init /\ [][NextUpdater]_vars

\* ------------------------------------------------- claims on the updater
\* C27: a reload is only triggered by a request of the interval that is
\* still running: after stop() no request that completes reloads the page,
\* and a run of the updater reloads at most once.
C27_NoReloadAfterStop ==
    [][\A id \in 1..MaxTimers :
          reloads' = Append(reloads, id) => (isRunning /\ intervalId = id)]_vars

\* C28: at most one interval is active, isRunning is true exactly when
\* intervalId is set, the active interval is the one of intervalId, a start()
\* while running changes nothing of this and a stop() leaves isRunning false
\* and intervalId null.
C28_OneIntervalWhileRunning ==
    /\ Cardinality(timers) <= 1
    /\ isRunning <=> intervalId # NoInterval
    /\ timers = IF intervalId # NoInterval THEN {intervalId} ELSE {}
    /\ lastCall.method = "stop" => ~isRunning /\ intervalId = NoInterval
    /\ (lastCall.method = "start" /\ lastCall.wasRunning) => isRunning

\* start() was called on a running updater that had been stopped and started
\* before: one interval is active, the second
C28_Witness ==
    /\ lastCall = [method |-> "start", wasRunning |-> TRUE]
    /\ handedOut = 2
    /\ timers = {2}
    /\ isRunning

\* ------------------------------------- claims on the first-draft rollup
\* a contest page of the first draft whose contest was found
RollupV1 == page.handler = "contest_v1" /\ page.input.contest # NoContestInfo

\* the problems the engine listed for the rollup
Listed == page.input.problemsResult.data

\* the request for the result of the i-th listed problem
ResponseFor(i) == page.input.responses[Listed[i].id]

\* the request for a result failed: it threw or came back without success
Failed(resultResponse) == resultResponse.kind \in {"thrown", "unsuccessful"}

\* a rollup in which the result of some listed problem could not be fetched
RollupWithFailure ==
    /\ RollupV1
    /\ page.input.problemsResult.kind = "data"
    /\ \E i \in DOMAIN Listed : Failed(ResponseFor(i))

\* the pairs of the results that were fetched, problem after problem
RECURSIVE FetchedPairs(_)
FetchedPairs(i) ==
    IF i = 0 THEN <<>>
    ELSE FetchedPairs(i - 1) \o
         (IF ResponseFor(i).kind = "data"
          THEN Default(ResponseFor(i).data, "high_similarity_pairs", <<>>)
          ELSE <<>>)

\* the averages that the pairs of a list carry
RECURSIVE Averages(_)
Averages(pairs) ==
    IF pairs = <<>> THEN <<>>
    ELSE (IF Has(Head(pairs).similarities, "AVG")
          THEN <<Head(pairs).similarities.AVG>> ELSE <<>>) \o Averages(Tail(pairs))

\* C21: when the result of one problem cannot be fetched the rollup still
\* completes: nothing is thrown, the body lists every problem of the contest
\* in order, each problem whose result was fetched carries that result, the
\* others carry none, and the totals are those of the fetched results.
C21_RollupSurvivesFailedFetch ==
    RollupWithFailure =>
        /\ Has(page, "body")
        /\ Len(page.body.problems) = Len(Listed)
        /\ \A i \in DOMAIN Listed :
              /\ page.body.problems[i].id = Listed[i].id
              /\ IF ResponseFor(i).kind = "data"
                 THEN /\ Has(page.body.problems[i], "plagiarism_result")
                      /\ page.body.problems[i].plagiarism_result = ResponseFor(i).data
                 ELSE ~Has(page.body.problems[i], "plagiarism_result")
        /\ page.body.total_high_similarity = Len(FetchedPairs(Len(Listed)))
        /\ LET averages == Averages(FetchedPairs(Len(Listed)))
           IN  SameNumber(page.body.avg_similarity,
                          [num |-> Sum(averages), den |-> Len(averages)])

\* of three problems the request for the first threw, the other two results
\* were fetched and make up the totals
C21_Witness ==
    /\ RollupWithFailure
    /\ Len(Listed) = 3
    /\ ResponseFor(1).kind = "thrown"
    /\ ResponseFor(2).kind = "data" /\ ResponseFor(3).kind = "data"
    /\ Has(page, "body")
    /\ page.body.total_high_similarity = 3
    /\ page.body.avg_similarity = [num |-> 120, den |-> 2]

\* the fields of the body of a rollup, and of one of its problems
RollupFields == {"contest", "problems", "total_high_similarity", "avg_similarity"}

ProblemFields == {"id", "last_check_at", "plagiarism_result"}

\* C22: when the result of a problem is unavailable during a rollup, the body
\* names the problem as left out: it carries a list of omissions next to the
\* rollup, or the entry of the problem carries a mark of the failure.
C22_OmissionIsReported ==
    RollupWithFailure =>
        /\ Has(page, "body")
        /\ \/ DOMAIN page.body # RollupFields
           \/ \E i \in DOMAIN Listed :
                 /\ Failed(ResponseFor(i))
                 /\ DOMAIN page.body.problems[i] \ ProblemFields # {}

(***************************************************************************)
(* Part 4: the per-language breakdown of the problem detail page.  The     *)
(* result that findOne gave is drawn here with the fields the breakdown    *)
(* reads: the languages of the two files of a pair, the similarity of the  *)
(* pair and submission_stats.by_language.                                  *)
(***************************************************************************)
\* pairs of a stored result; a field may be missing
PairCC == [file1_language |-> "cc", file2_language |-> "cc", similarity |-> 80]
PairCP == [file1_language |-> "cc", file2_language |-> "py", similarity |-> 90]
PairPC == [file1_language |-> "py", file2_language |-> "cc"]
PairC == [file1_language |-> "cc", similarity |-> 60]

LanguagePairs == {PairCC, PairCP, PairPC, PairC}

LanguagePairLists ==
    {<<>>} \cup {<<a>> : a \in LanguagePairs}
           \cup {<<a, b>> : a, b \in LanguagePairs}

\* submission_stats of a stored result: missing, the array the analysis
\* result declares, or an object whose by_language lists its keys in order
SubmissionStats ==
    {[none |-> TRUE],
     [array |-> <<>>],
     [by_language |-> <<[language |-> "cc", data |-> [count |-> 2]]>>],
     [by_language |-> <<[language |-> "cc", data |-> [count |-> 1]],
                        [language |-> "py", data |-> [count |-> 3]]>>],
     [by_language |-> <<[language |-> "py", data |-> [count |-> 2]],
                        [language |-> "cc", data |-> [count |-> 2]]>>],
     [by_language |-> <<[language |-> "java", data |-> [users |-> 1]]>>]}

\* the results findOne can give for the breakdown
ResultsWithLanguages ==
    {[contest_id |-> "c1", problem_id |-> 1, high_similarity_pairs |-> l,
      submission_stats |-> st] : l \in LanguagePairLists, st \in SubmissionStats}

\* languages.add(language)
Add(languages, language) ==
    IF \E i \in DOMAIN languages : languages[i] = language
    THEN languages ELSE Append(languages, language)

\* the forEach over the pairs of extractLanguages
RECURSIVE AddPairLanguages(_, _)
AddPairLanguages(pairs, languages) ==
    IF pairs = <<>> THEN languages
    ELSE LET pair == Head(pairs)
             first == IF Has(pair, "file1_language")
                      THEN Add(languages, pair.file1_language) ELSE languages
             both == IF Has(pair, "file2_language")
                     THEN Add(first, pair.file2_language) ELSE first
         IN  AddPairLanguages(Tail(pairs), both)

\* the forEach over the keys of by_language of extractLanguages
RECURSIVE AddKeys(_, _)
AddKeys(entries, languages) ==
    IF entries = <<>> THEN languages
    ELSE AddKeys(Tail(entries), Add(languages, Head(entries).language))

\* plagiarismResult.submission_stats?.by_language, none when it is not there
ByLanguage(plagiarismResult) ==
    Default(plagiarismResult.submission_stats, "by_language", <<>>)

\* ProblemPlagiarismDetailHandler.extractLanguages
extractLanguages(plagiarismResult) ==
    AddKeys(ByLanguage(plagiarismResult),
            AddPairLanguages(plagiarismResult.high_similarity_pairs, <<>>))

\* pair.file1_language === language || pair.file2_language === language
Touches(pair, language) ==
    \/ Has(pair, "file1_language") /\ pair.file1_language = language
    \/ Has(pair, "file2_language") /\ pair.file2_language = language

\* high_similarity_pairs.filter(...)
RECURSIVE filterByLanguage(_, _)
filterByLanguage(pairs, language) ==
    IF pairs = <<>> THEN <<>>
    ELSE (IF Touches(Head(pairs), language) THEN <<Head(pairs)>> ELSE <<>>)
         \o filterByLanguage(Tail(pairs), language)

\* countHighSimilarityPairsByLanguage
countHighSimilarityPairsByLanguage(plagiarismResult, language) ==
    Len(filterByLanguage(plagiarismResult.high_similarity_pairs, language))

\* pair.similarity || 0
SimilarityOrZero(pair) == Default(pair, "similarity", 0)

\* Math.max(...pairs.map(pair => pair.similarity || 0)) of a list with a pair
RECURSIVE MaxOf(_)
MaxOf(pairs) ==
    IF Len(pairs) = 1 THEN SimilarityOrZero(Head(pairs))
    ELSE Max(SimilarityOrZero(Head(pairs)), MaxOf(Tail(pairs)))

\* getMaxSimilarityByLanguage
getMaxSimilarityByLanguage(plagiarismResult, language) ==
    LET pairs == filterByLanguage(plagiarismResult.high_similarity_pairs, language)
    IN  IF Len(pairs) = 0 THEN 0 ELSE MaxOf(pairs)

RECURSIVE totalSimilarity(_)
totalSimilarity(pairs) ==
    IF pairs = <<>> THEN 0
    ELSE SimilarityOrZero(Head(pairs)) + totalSimilarity(Tail(pairs))

\* getAvgSimilarityByLanguage, a fraction; 0 without pairs
getAvgSimilarityByLanguage(plagiarismResult, language) ==
    LET pairs == filterByLanguage(plagiarismResult.high_similarity_pairs, language)
    IN  IF Len(pairs) = 0 THEN [num |-> 0, den |-> 1]
        ELSE [num |-> totalSimilarity(pairs), den |-> Len(pairs)]

\* stats.push({...}) for one entry of by_language
LanguageStat(plagiarismResult, entry) ==
    [language |-> entry.language,
     submission_count |-> Default(entry.data, "count", 0),
     high_similarity_pairs |->
         countHighSimilarityPairsByLanguage(plagiarismResult, entry.language),
     max_similarity |-> getMaxSimilarityByLanguage(plagiarismResult, entry.language),
     avg_similarity |-> getAvgSimilarityByLanguage(plagiarismResult, entry.language)]

\* stats.sort((a, b) => b.submission_count - a.submission_count), stable
RECURSIVE InsertStat(_, _)
InsertStat(stat, sorted) ==
    IF sorted = <<>> THEN <<stat>>
    ELSE IF Head(sorted).submission_count >= stat.submission_count
         THEN <<Head(sorted)>> \o InsertStat(stat, Tail(sorted))
         ELSE <<stat>> \o sorted

RECURSIVE SortStats(_, _)
SortStats(stats, sorted) ==
    IF stats = <<>> THEN sorted
    ELSE SortStats(Tail(stats), InsertStat(Head(stats), sorted))

\* ProblemPlagiarismDetailHandler.processLanguageStats
processLanguageStats(plagiarismResult) ==
    LET entries == ByLanguage(plagiarismResult)
    IN  SortStats([i \in DOMAIN entries |-> LanguageStat(plagiarismResult, entries[i])],
                  <<>>)

\* ProblemPlagiarismDetailHandler.get for a contest that exists and a result
\* that findOne found
ProblemPlagiarismDetailHandlerGetFound ==
    /\ \E plagiarismResult \in ResultsWithLanguages :
          page' = [handler |-> "problem_languages",
                   input |-> [plagiarismResult |-> plagiarismResult],
                   body |-> [problem |->
                                [id |-> plagiarismResult.problem_id,
                                 high_similarity_pairs |->
                                     Len(plagiarismResult.high_similarity_pairs),
                                 high_similarity_pairs_data |->
                                     plagiarismResult.high_similarity_pairs,
                                 languages |-> extractLanguages(plagiarismResult),
                                 language_stats |-> processLanguageStats(plagiarismResult)],
                             plagiarism_result |-> plagiarismResult]]
    /\ UNCHANGED <<taskVars, updaterVars, store>>

NextLanguages == ProblemPlagiarismDetailHandlerGetFound

SpecLanguages == Init /\ [][NextLanguages]_vars

\* ------------------------------------ claims on the contest plugin
\* a handler of the contest plugin came to its request to the engine, and the
\* request failed
BackendFailed ==
    /\ page.handler \in {"plagiarism_main", "plagiarism_export"}
    /\ page.input.tdoc /\ page.input.permitted
    /\ page.input.request.kind # "data"

\* C24: no failure of the request to the engine leaves a handler as an
\* exception: the handler ends with a body that carries an error entry.
C24_BackendFailureStaysInBody ==
    BackendFailed => (~Has(page, "thrown") /\ Has(page, "body") /\ Has(page.body, "error"))

\* ---------------------------------------- claims on the language breakdown
\* a problem page with its breakdown
BreakdownPage == page.handler = "problem_languages"

ListedPairs == page.body.problem.high_similarity_pairs_data

\* the languages of the files of a pair
LanguagesOf(pair) ==
    {pair[f] : f \in DOMAIN pair \cap {"file1_language", "file2_language"}}

\* the listed pairs that have a file in a language
PairsIn(language) == {i \in DOMAIN ListedPairs : language \in LanguagesOf(ListedPairs[i])}

\* the entries of language_stats for a language
BucketsOf(language) ==
    {k \in DOMAIN page.body.problem.language_stats :
        page.body.problem.language_stats[k].language = language}

RECURSIVE SumOver(_, _)
SumOver(S, pairs) ==
    IF S = {} THEN 0
    ELSE LET i == CHOOSE i \in S : TRUE
         IN  Default(pairs[i], "similarity", 0) + SumOver(S \ {i}, pairs)

\* an entry of language_stats stands for the pairs that have a file in its
\* language, each once
BucketIsRight(stat) ==
    LET touching == PairsIn(stat.language)
    IN  /\ stat.high_similarity_pairs = Cardinality(touching)
        /\ stat.max_similarity =
              (IF touching = {} THEN 0
               ELSE Greatest({Default(ListedPairs[i], "similarity", 0) : i \in touching}))
        /\ IF touching = {} THEN stat.avg_similarity.num = 0
           ELSE SameNumber(stat.avg_similarity,
                           [num |-> SumOver(touching, ListedPairs),
                            den |-> Cardinality(touching)])

\* C30: every language of a file of a listed pair is in the languages list
\* and has an entry in language_stats.
C30_PairLanguagesHaveStats ==
    BreakdownPage =>
        \A i \in DOMAIN ListedPairs : \A language \in LanguagesOf(ListedPairs[i]) :
            /\ \E k \in DOMAIN page.body.problem.languages :
                  page.body.problem.languages[k] = language
            /\ BucketsOf(language) # {}

\* every entry of language_stats is right for its language
BucketsAreRight ==
    BreakdownPage =>
        \A k \in DOMAIN page.body.problem.language_stats :
            BucketIsRight(page.body.problem.language_stats[k])

\* C23: every pair is counted in the bucket of each language it has a file in,
\* so a pair of two languages is counted in both buckets, and once in each
\* bucket; the maximum and the average of a bucket are those of the pairs
\* that have a file in its language.
C23_PairCountedOncePerLanguage ==
    /\ BreakdownPage =>
          \A i \in DOMAIN ListedPairs : \A language \in LanguagesOf(ListedPairs[i]) :
              BucketsOf(language) # {}
    /\ BucketsAreRight

====
